---- MODULE Spec2Model ----
(***************************************************************************)
(* Model of zhmcclient/_partition.py: PartitionManager (list, create) and  *)
(* Partition (start, stop, delete, update_properties), run by one caller   *)
(* against a session that talks to an HMC.                                 *)
(*                                                                         *)
(* A URI is a sequence of path segments, and 'a' + 'b' on URIs is \o.      *)
(* A Python value is a record tagged by its type: None, a str (a URI), a   *)
(* list, or a JSON object with its members.                                *)
(***************************************************************************)
EXTENDS Integers, Sequences, FiniteSets, TLC

\* Bounds of the model.
MaxParts == 3

Cpcs == {1, 2}
Descriptions == {"d1", "d2"}

\* The exceptions the docstrings list as raised by the session.
Errors == {"HTTPError", "ParseError", "AuthError", "ConnectionError"}

VARIABLES
    hmc,      \* the HMC behind the session: its partitions per CPC, in order
    managers, \* the PartitionManager object of each CPC
    held,     \* the Partition objects the caller holds, taken from a list result
    ret,      \* outcome of the last operation: what it returned or raised
    log       \* what the last operation did: session requests and list steps

vars == <<hmc, managers, held, ret, log>>

-----------------------------------------------------------------------------
\* Python values

None == [type |-> "None"]
Str(u) == [type |-> "str", uri |-> u]
ListOf(s) == [type |-> "list", items |-> s]
Json(m) == [type |-> "json", members |-> m]

\* Variant: the response is taken to have content whatever it is.
Truthy_always(v) == TRUE

\* Python truth value of a session response: None and {} are falsy.
Truthy(v) == v.type = "json" /\ DOMAIN v.members # {}

\* v[key] raises unless v is an object with that member.
HasKey(v, key) == v.type = "json" /\ key \in DOMAIN v.members
SubscriptError(v) == IF v.type = "json" THEN "KeyError" ELSE "TypeError"

NoKwargs == [kw |-> "none"]
BodyKw(properties) == [kw |-> "body", body |-> properties]
WaitKw(w) == [kw |-> "wait_for_completion", wait_for_completion |-> w]

\* An entry of the log: a session request with what the session answered, or
\* a step of list (a call of pull_full_properties, an append to the result).
Event(method, uri, kwargs, res) ==
    [method |-> method, uri |-> uri, kwargs |-> kwargs,
     raised |-> res.raised, value |-> res.value]
Step(what, uri) == [method |-> what, uri |-> uri, kwargs |-> NoKwargs,
                    raised |-> "none", value |-> None]

HttpMethods == {"GET", "POST", "DELETE"}
Requests(l) == SelectSeq(l, LAMBDA e : e.method \in HttpMethods)

-----------------------------------------------------------------------------
\* The HMC and the session in front of it

CpcUri(c) == <<"api", "cpcs", c>>
PartUri(p) == <<"api", "partitions", p>>
JobUri(p) == <<"api", "jobs", p>>

AllParts(srv) == UNION {{srv.parts[c][i] : i \in 1..Len(srv.parts[c])} : c \in Cpcs}
Exists(srv, p) == \E x \in AllParts(srv) : x.id = p
PartOf(srv, p) == CHOOSE x \in AllParts(srv) : x.id = p

\* The properties the list operation returns for a partition, and all of them.
ShortProps(x) == [object_uri |-> PartUri(x.id)]
FullProps(x) == [object_uri |-> PartUri(x.id), description |-> x.description]

RECURSIVE MapShort(_)
MapShort(s) == IF s = <<>> THEN <<>> ELSE <<ShortProps(Head(s))>> \o MapShort(Tail(s))

\* srv with the description of partition p set, and with partition p removed.
UpdatePart(srv, p, description) ==
    [srv EXCEPT !.parts = [c \in Cpcs |->
        [i \in 1..Len(srv.parts[c]) |->
            IF srv.parts[c][i].id = p
            THEN [srv.parts[c][i] EXCEPT !.description = description]
            ELSE srv.parts[c][i]]]]
DropPart(srv, p) ==
    [srv EXCEPT !.parts = [c \in Cpcs |-> SelectSeq(srv.parts[c], LAMBDA x : x.id # p)]]

Raise(e, srv) == [raised |-> e, value |-> None, srv |-> srv]
Reply(v, srv) == [raised |-> "none", value |-> v, srv |-> srv]

\* fault: "none", an element of Errors, or (for a GET) "None" / "empty" for a
\* response without content.
session_get(srv, uri, fault) ==
    IF fault \in Errors THEN Raise(fault, srv)
    ELSE IF fault = "None" THEN Reply(None, srv)
    ELSE IF fault = "empty" THEN Reply(Json(<<>>), srv)
    ELSE IF Len(uri) = 4 /\ uri[2] = "cpcs" /\ uri[3] \in Cpcs /\ uri[4] = "partitions"
         THEN Reply(Json([partitions |-> MapShort(srv.parts[uri[3]])]), srv)
    ELSE IF Len(uri) = 3 /\ uri[2] = "partitions" /\ Exists(srv, uri[3])
         THEN Reply(Json(FullProps(PartOf(srv, uri[3]))), srv)
    ELSE Raise("HTTPError", srv)

session_post(srv, uri, kwargs, fault) ==
    IF fault \in Errors THEN Raise(fault, srv)
    ELSE IF Len(uri) = 4 /\ uri[2] = "cpcs" /\ uri[3] \in Cpcs /\ uri[4] = "partitions"
              /\ kwargs.kw = "body"
         THEN Reply(Json([object_uri |-> PartUri(srv.nextId)]),
                    [parts |-> [srv.parts EXCEPT ![uri[3]] =
                                   Append(@, [id |-> srv.nextId,
                                              description |-> kwargs.body.description])],
                     nextId |-> srv.nextId + 1])
    ELSE IF Len(uri) = 3 /\ uri[2] = "partitions" /\ Exists(srv, uri[3])
              /\ kwargs.kw = "body"
         THEN Reply(None, UpdatePart(srv, uri[3], kwargs.body.description))
    ELSE IF Len(uri) = 5 /\ uri[2] = "partitions" /\ Exists(srv, uri[3])
              /\ uri[4] = "operations" /\ uri[5] \in {"start", "stop"}
              /\ kwargs.kw = "wait_for_completion"
         THEN IF kwargs.wait_for_completion
              THEN Reply(Json([status |-> "complete", job_status_code |-> 204]), srv)
              ELSE Reply(Json([job_id |-> JobUri(uri[3])]), srv)
    ELSE Raise("HTTPError", srv)

session_delete(srv, uri, fault) ==
    IF fault \in Errors THEN Raise(fault, srv)
    ELSE IF Len(uri) = 3 /\ uri[2] = "partitions" /\ Exists(srv, uri[3])
         THEN Reply(None, DropPart(srv, uri[3]))
    ELSE Raise("HTTPError", srv)

-----------------------------------------------------------------------------
\* BaseManager / BaseResource: the objects of the client

Cpc(c) == [properties |-> [object_uri |-> CpcUri(c)]]

\* PartitionManager.__init__ and the cpc property.
PartitionManager(parent) == [parent |-> parent]
cpc(self) == self.parent

\* Partition.__init__
Partition(manager, properties) ==
    [manager |-> manager, properties |-> properties, full_properties |-> FALSE]

get_property(self, name) == self.properties[name]

\* The outcome of a method: what it raised or returned, what it did, the HMC
\* and the receiver after the call.
Outcome(raised, value, l, srv, self) ==
    [raised |-> raised, value |-> IF raised = "none" THEN value ELSE None,
     log |-> l, srv |-> srv, self |-> self]

\* The fault of the n-th session request of an operation.
FaultOf(faults, n) == IF faults.at = n THEN faults.how ELSE "none"

pull_full_properties(self, srv, fault) ==
    LET uri == get_property(self, "object_uri")
        res == session_get(srv, uri, fault)
    IN Outcome(res.raised, None,
               <<Step("pull_full_properties", uri), Event("GET", uri, NoKwargs, res)>>,
               srv,
               IF res.raised = "none"
               THEN [self EXCEPT !.properties = res.value.members, !.full_properties = TRUE]
               ELSE self)

-----------------------------------------------------------------------------
\* PartitionManager

\* Variant: the new partition is put at the front of the list.
list_step_prepend(self, partition_props, full_properties, srv, faults, acc) ==
    LET partition == Partition(self, partition_props)
        pulled == pull_full_properties(partition, srv, FaultOf(faults, acc.n + 1))
    IN IF ~full_properties
       THEN [acc EXCEPT !.partition_list = <<partition>> \o @,
                        !.log = @ \o <<Step("append", partition_props.object_uri)>>]
       ELSE IF pulled.raised # "none"
       THEN [acc EXCEPT !.raised = pulled.raised, !.log = @ \o pulled.log, !.n = @ + 1]
       ELSE [acc EXCEPT !.partition_list = <<pulled.self>> \o @,
                        !.log = @ \o pulled.log
                                  \o <<Step("append", partition_props.object_uri)>>,
                        !.n = @ + 1]

\* Variant: an error of pull_full_properties is caught and the partition is
\* listed with the properties it has.
list_step_swallow(self, partition_props, full_properties, srv, faults, acc) ==
    LET partition == Partition(self, partition_props)
        pulled == pull_full_properties(partition, srv, FaultOf(faults, acc.n + 1))
    IN IF ~full_properties
       THEN [acc EXCEPT !.partition_list = Append(@, partition),
                        !.log = @ \o <<Step("append", partition_props.object_uri)>>]
       ELSE [acc EXCEPT !.partition_list = Append(@, pulled.self),
                        !.log = @ \o pulled.log
                                  \o <<Step("append", partition_props.object_uri)>>,
                        !.n = @ + 1]

\* Variant: the partition is appended first and its properties pulled after.
list_step_append_first(self, partition_props, full_properties, srv, faults, acc) ==
    LET partition == Partition(self, partition_props)
        pulled == pull_full_properties(partition, srv, FaultOf(faults, acc.n + 1))
    IN IF ~full_properties
       THEN [acc EXCEPT !.partition_list = Append(@, partition),
                        !.log = @ \o <<Step("append", partition_props.object_uri)>>]
       ELSE [acc EXCEPT !.partition_list = Append(@, pulled.self),
                        !.raised = pulled.raised,
                        !.log = @ \o <<Step("append", partition_props.object_uri)>>
                                  \o pulled.log,
                        !.n = @ + 1]

\* One turn of the for loop of list; acc is the loop's state.
list_step(self, partition_props, full_properties, srv, faults, acc) ==
    LET partition == Partition(self, partition_props)
        pulled == pull_full_properties(partition, srv, FaultOf(faults, acc.n + 1))
    IN IF ~full_properties
       THEN [acc EXCEPT !.partition_list = Append(@, partition),
                        !.log = @ \o <<Step("append", partition_props.object_uri)>>]
       ELSE IF pulled.raised # "none"
       THEN [acc EXCEPT !.raised = pulled.raised, !.log = @ \o pulled.log, !.n = @ + 1]
       ELSE [acc EXCEPT !.partition_list = Append(@, pulled.self),
                        !.log = @ \o pulled.log
                                  \o <<Step("append", partition_props.object_uri)>>,
                        !.n = @ + 1]

RECURSIVE list_loop(_, _, _, _, _, _)
list_loop(self, partition_items, full_properties, srv, faults, acc) ==
    IF partition_items = <<>> \/ acc.raised # "none" THEN acc
    ELSE list_loop(self, Tail(partition_items), full_properties, srv, faults,
                   list_step(self, Head(partition_items), full_properties, srv, faults, acc))

\* Variant: a manager that has listed before answers from the partitions the
\* client already holds, without asking the HMC again.
list_cached(self, full_properties, srv, faults) ==
    LET cpc_uri == get_property(cpc(self), "object_uri")
        uri == cpc_uri \o <<"partitions">>
        partitions_res == session_get(srv, uri, FaultOf(faults, 1))
        start == [partition_list |-> <<>>, log |-> <<Event("GET", uri, NoKwargs, partitions_res)>>,
                  raised |-> "none", n |-> 1]
        end == IF Truthy(partitions_res.value)
               THEN IF HasKey(partitions_res.value, "partitions")
                    THEN list_loop(self, partitions_res.value.members.partitions,
                                   full_properties, srv, faults, start)
                    ELSE [start EXCEPT !.raised = SubscriptError(partitions_res.value)]
               ELSE start
    IN IF held # <<>> /\ held[1].manager = self
       THEN Outcome("none", ListOf(held), <<>>, srv, self)
       ELSE IF partitions_res.raised # "none"
       THEN Outcome(partitions_res.raised, None, start.log, srv, self)
       ELSE Outcome(end.raised, ListOf(end.partition_list), end.log, srv, self)

list(self, full_properties, srv, faults) ==
    LET cpc_uri == get_property(cpc(self), "object_uri")
        uri == cpc_uri \o <<"partitions">>
        partitions_res == session_get(srv, uri, FaultOf(faults, 1))
        start == [partition_list |-> <<>>, log |-> <<Event("GET", uri, NoKwargs, partitions_res)>>,
                  raised |-> "none", n |-> 1]
        end == IF Truthy(partitions_res.value)
               THEN IF HasKey(partitions_res.value, "partitions")
                    THEN list_loop(self, partitions_res.value.members.partitions,
                                   full_properties, srv, faults, start)
                    ELSE [start EXCEPT !.raised = SubscriptError(partitions_res.value)]
               ELSE start
    IN IF partitions_res.raised # "none"
       THEN Outcome(partitions_res.raised, None, start.log, srv, self)
       ELSE Outcome(end.raised, ListOf(end.partition_list), end.log, srv, self)

\* Variant: create returns the whole response, not its 'object-uri' member.
create_returns_result(self, properties, srv, fault) ==
    LET cpc_uri == get_property(cpc(self), "object_uri")
        uri == cpc_uri \o <<"partitions">>
        result == session_post(srv, uri, BodyKw(properties), fault)
    IN Outcome(result.raised, result.value,
               <<Event("POST", uri, BodyKw(properties), result)>>, result.srv, self)

create(self, properties, srv, fault) ==
    LET cpc_uri == get_property(cpc(self), "object_uri")
        uri == cpc_uri \o <<"partitions">>
        result == session_post(srv, uri, BodyKw(properties), fault)
        l == <<Event("POST", uri, BodyKw(properties), result)>>
    IN IF result.raised # "none" THEN Outcome(result.raised, None, l, result.srv, self)
       ELSE IF ~HasKey(result.value, "object_uri")
       THEN Outcome(SubscriptError(result.value), None, l, result.srv, self)
       ELSE Outcome("none", Str(result.value.members.object_uri), l, result.srv, self)

-----------------------------------------------------------------------------
\* Partition

\* The value of a parameter with a default: args is <<>> when the caller
\* passes nothing, <<v>> when it passes v.
Arg(args, default) == IF args = <<>> THEN default ELSE args[1]

start(self, args, srv, fault) ==
    LET wait_for_completion == Arg(args, TRUE)
        partition_uri == get_property(self, "object_uri")
        uri == partition_uri \o <<"operations", "start">>
        result == session_post(srv, uri, WaitKw(wait_for_completion), fault)
    IN Outcome(result.raised, result.value,
               <<Event("POST", uri, WaitKw(wait_for_completion), result)>>, result.srv, self)

\* Variant: stop posts to the start operation.
stop_posts_start(self, args, srv, fault) ==
    LET wait_for_completion == Arg(args, TRUE)
        partition_uri == get_property(self, "object_uri")
        uri == partition_uri \o <<"operations", "start">>
        result == session_post(srv, uri, WaitKw(wait_for_completion), fault)
    IN Outcome(result.raised, result.value,
               <<Event("POST", uri, WaitKw(wait_for_completion), result)>>, result.srv, self)

stop(self, args, srv, fault) ==
    LET wait_for_completion == Arg(args, TRUE)
        partition_uri == get_property(self, "object_uri")
        uri == partition_uri \o <<"operations", "stop">>
        result == session_post(srv, uri, WaitKw(wait_for_completion), fault)
    IN Outcome(result.raised, result.value,
               <<Event("POST", uri, WaitKw(wait_for_completion), result)>>, result.srv, self)

delete(self, srv, fault) ==
    LET partition_uri == get_property(self, "object_uri")
        result == session_delete(srv, partition_uri, fault)
    IN Outcome(result.raised, None,
               <<Event("DELETE", partition_uri, NoKwargs, result)>>, result.srv, self)

\* Variant: the update is posted to a 'properties' resource of the partition.
update_properties_suffix(self, properties, srv, fault) ==
    LET partition_uri == get_property(self, "object_uri")
        uri == partition_uri \o <<"properties">>
        result == session_post(srv, uri, BodyKw(properties), fault)
    IN Outcome(result.raised, None,
               <<Event("POST", uri, BodyKw(properties), result)>>, result.srv, self)

\* Variant: a successful update is written into the properties of the handle.
update_properties_merge(self, properties, srv, fault) ==
    LET partition_uri == get_property(self, "object_uri")
        result == session_post(srv, partition_uri, BodyKw(properties), fault)
        merged == [k \in DOMAIN self.properties \cup DOMAIN properties |->
                      IF k \in DOMAIN properties THEN properties[k] ELSE self.properties[k]]
    IN Outcome(result.raised, None,
               <<Event("POST", partition_uri, BodyKw(properties), result)>>, result.srv,
               IF result.raised = "none" THEN [self EXCEPT !.properties = merged] ELSE self)

update_properties(self, properties, srv, fault) ==
    LET partition_uri == get_property(self, "object_uri")
        result == session_post(srv, partition_uri, BodyKw(properties), fault)
    IN Outcome(result.raised, None,
               <<Event("POST", partition_uri, BodyKw(properties), result)>>, result.srv, self)

-----------------------------------------------------------------------------
\* The caller: one call at a time, keeping the last list it was given

Faults == {"none"} \cup Errors
WaitArgs == {<<>>, <<TRUE>>, <<FALSE>>}
NoFault == [at |-> 0, how |-> "none"]
ListFaults == {NoFault}
                \cup {[at |-> 1, how |-> h] : h \in Errors \cup {"None", "empty"}}
                \cup {[at |-> n, how |-> h] : n \in 2..(MaxParts + 1), h \in Errors}

\* What the caller sees of a call: its arguments, the objects of the client
\* before it, and what it raised or returned.
Call(op, args, r) ==
    [op |-> op, args |-> args, local |-> [managers |-> managers, held |-> held],
     raised |-> r.raised, value |-> r.value]

\* No call is under way: the caller has taken the result of the last one.
Idle == [op |-> "idle", args |-> [none |-> TRUE], local |-> [none |-> TRUE],
         raised |-> "none", value |-> None]

Init ==
    /\ hmc = [parts |-> [c \in Cpcs |-> <<>>], nextId |-> 1]
    /\ managers = [c \in Cpcs |-> PartitionManager(Cpc(c))]
    /\ held = <<>>
    /\ ret = Idle
    /\ log = <<>>

CallList ==
    \E c \in Cpcs, full_properties \in BOOLEAN, faults \in ListFaults :
        LET r == list(managers[c], full_properties, hmc, faults)
        IN /\ ret = Idle
           /\ faults.at <= 1 + (IF full_properties THEN Len(hmc.parts[c]) ELSE 0)
           /\ hmc' = r.srv
           /\ managers' = [managers EXCEPT ![c] = r.self]
           /\ UNCHANGED held
           /\ ret' = Call("list", [cpc |-> c, full_properties |-> full_properties], r)
           /\ log' = r.log

CallCreate ==
    \E c \in Cpcs, d \in Descriptions, fault \in Faults :
        LET r == create(managers[c], [description |-> d], hmc, fault)
        IN /\ ret = Idle
           /\ hmc.nextId <= MaxParts
           /\ hmc' = r.srv
           /\ managers' = [managers EXCEPT ![c] = r.self]
           /\ ret' = Call("create", [cpc |-> c, properties |-> [description |-> d]], r)
           /\ log' = r.log
           /\ UNCHANGED held

CallStart ==
    \E i \in DOMAIN held, args \in WaitArgs, fault \in Faults :
        LET r == start(held[i], args, hmc, fault)
        IN /\ ret = Idle
           /\ hmc' = r.srv
           /\ held' = [held EXCEPT ![i] = r.self]
           /\ ret' = Call("start", [self |-> held[i], wait_for_completion |-> args], r)
           /\ log' = r.log
           /\ UNCHANGED managers

CallStop ==
    \E i \in DOMAIN held, args \in WaitArgs, fault \in Faults :
        LET r == stop(held[i], args, hmc, fault)
        IN /\ ret = Idle
           /\ hmc' = r.srv
           /\ held' = [held EXCEPT ![i] = r.self]
           /\ ret' = Call("stop", [self |-> held[i], wait_for_completion |-> args], r)
           /\ log' = r.log
           /\ UNCHANGED managers

CallDelete ==
    \E i \in DOMAIN held, fault \in Faults :
        LET r == delete(held[i], hmc, fault)
        IN /\ ret = Idle
           /\ hmc' = r.srv
           /\ held' = [held EXCEPT ![i] = r.self]
           /\ ret' = Call("delete", [self |-> held[i]], r)
           /\ log' = r.log
           /\ UNCHANGED managers

CallUpdateProperties ==
    \E i \in DOMAIN held, d \in Descriptions, fault \in Faults :
        LET r == update_properties(held[i], [description |-> d], hmc, fault)
        IN /\ ret = Idle
           /\ hmc' = r.srv
           /\ held' = [held EXCEPT ![i] = r.self]
           /\ ret' = Call("update_properties", [self |-> held[i], properties |-> [description |-> d]], r)
           /\ log' = r.log
           /\ UNCHANGED managers

\* The caller keeps one Partition of the list it was just given.
Keep ==
    \E i \in 1..MaxParts :
        /\ ret.op = "list" /\ ret.raised = "none"
        /\ i \in DOMAIN ret.value.items
        /\ held' = <<ret.value.items[i]>>
        /\ ret' = Idle
        /\ log' = <<>>
        /\ UNCHANGED <<hmc, managers>>

\* The caller takes the result of the call and is ready for the next one.
Return ==
    /\ ret # Idle
    /\ ret' = Idle
    /\ log' = <<>>
    /\ UNCHANGED <<hmc, managers, held>>

Next ==
    \/ CallList
    \/ CallCreate
    \/ CallStart
    \/ CallStop
    \/ CallDelete
    \/ CallUpdateProperties
    \/ Keep
    \/ Return

Spec == Init /\ [][Next]_vars

-----------------------------------------------------------------------------
\* Properties

Returned == ret.raised = "none"
OfMethod(l, m) == SelectSeq(l, LAMBDA e : e.method = m)
ListUri(c) == managers[c].parent.properties.object_uri \o <<"partitions">>
IdOf(partition) == partition.properties.object_uri[3]
OnCpc(c, uri) == \E k \in DOMAIN hmc.parts[c] : PartUri(hmc.parts[c][k].id) = uri
\* The wait_for_completion value a call of start or stop works with.
Waited == IF ret.args.wait_for_completion = <<>> THEN TRUE
          ELSE ret.args.wait_for_completion[1]

\* C1: list first issues a GET on the object-uri of the manager's own CPC
\* followed by 'partitions', every further GET belongs to a call of
\* pull_full_properties, and the list returned holds one Partition per entry
\* of the response's 'partitions' array, in the same order, built from that
\* entry's properties, with this manager as its manager and being a partition
\* of this CPC.
C1_ListMirrorsResponse ==
    ret.op = "list" =>
        LET c == ret.args.cpc
        IN /\ log # <<>>
           /\ log[1].method = "GET" /\ log[1].uri = ListUri(c) /\ log[1].kwargs = NoKwargs
           /\ \A i \in 2..Len(log) :
                 log[i].method \in HttpMethods => log[i - 1].method = "pull_full_properties"
           /\ (Returned /\ HasKey(log[1].value, "partitions")) =>
                 LET entries == log[1].value.members.partitions
                     result == ret.value.items
                 IN /\ Len(result) = Len(entries)
                    /\ \A i \in DOMAIN entries :
                          /\ result[i].manager = managers[c]
                          /\ result[i].properties.object_uri = entries[i].object_uri
                          /\ ~ret.args.full_properties => result[i].properties = entries[i]
                          /\ OnCpc(c, result[i].properties.object_uri)

C1_Witness ==
    /\ ret.op = "list" /\ Returned
    /\ Len(ret.value.items) = 2
    /\ ret.value.items[1] # ret.value.items[2]
    /\ \E other \in Cpcs \ {ret.args.cpc} : hmc.parts[other] # <<>>

\* C2: create issues exactly one POST, to the object-uri of the manager's CPC
\* followed by 'partitions' with the given properties as the body, returns
\* the 'object-uri' member of the response as a string, and leaves the
\* manager and the Partition objects of the client as they were.
C2_CreatePostsAndReturnsUri ==
    ret.op = "create" =>
        /\ Len(log) = 1
        /\ log[1].method = "POST" /\ log[1].uri = ListUri(ret.args.cpc)
        /\ log[1].kwargs = BodyKw(ret.args.properties)
        /\ (log[1].raised = "none" /\ HasKey(log[1].value, "object_uri")) =>
              /\ Returned
              /\ ret.value = Str(log[1].value.members.object_uri)
        /\ ret.local = [managers |-> managers, held |-> held]

C2_Witness ==
    /\ ret.op = "create" /\ Returned
    /\ held # <<>>
    /\ ret.value.type = "str" /\ Exists(hmc, ret.value.uri[3])
    /\ held[1].properties.object_uri # ret.value.uri

\* C3: start and stop each issue exactly one POST, to the partition's
\* object-uri followed by 'operations' and 'start' or 'stop', pass on the
\* caller's wait_for_completion (True when the caller gives none), and return
\* or raise what the session did: the job's status when waiting, the object
\* with the job-id when not.
C3_StartStopForward ==
    ret.op \in {"start", "stop"} =>
        /\ Len(log) = 1
        /\ log[1].method = "POST"
        /\ log[1].uri = ret.args.self.properties.object_uri \o <<"operations", ret.op>>
        /\ log[1].kwargs = WaitKw(Waited)
        /\ ret.raised = log[1].raised
        /\ ret.value = log[1].value
        /\ Returned => IF Waited
                       THEN HasKey(ret.value, "status") /\ ~HasKey(ret.value, "job_id")
                       ELSE HasKey(ret.value, "job_id") /\ ~HasKey(ret.value, "status")

C3_Witness ==
    /\ ret.op = "stop" /\ Returned
    /\ ret.args.wait_for_completion = <<FALSE>>
    /\ HasKey(ret.value, "job_id")

\* C4: in every operation an error raised by a session request ends the
\* operation at that request and is what the operation raises, with nothing
\* returned; and an operation raises nothing but the error of its last
\* request.
C4_ErrorsPropagate ==
    ret.op # "idle" =>
        /\ \A i \in DOMAIN log :
              log[i].raised # "none" =>
                  /\ i = Len(log)
                  /\ ret.raised = log[i].raised
                  /\ ret.value = None
        /\ ~Returned => (log # <<>> /\ log[Len(log)].raised = ret.raised)

C4_Witness ==
    /\ ret.op = "list" /\ ret.raised = "AuthError"
    /\ OfMethod(log, "append") # <<>>
    /\ ret.value = None

\* C5: every list starts with a GET of its own, and when the HMC answers with
\* content the list returned is the partitions the HMC has for that CPC at
\* that time, in order, whatever the client holds from earlier lists.
C5_ListIsFresh ==
    ret.op = "list" =>
        LET c == ret.args.cpc
            now == hmc.parts[c]
        IN /\ log # <<>> /\ log[1].method = "GET"
           /\ (log[1].raised = "none" /\ HasKey(log[1].value, "partitions")
                   /\ ~ret.args.full_properties) => Returned
           /\ (Returned /\ HasKey(log[1].value, "partitions")) =>
                 /\ Len(ret.value.items) = Len(now)
                 /\ \A i \in DOMAIN now :
                       ret.value.items[i].properties =
                           IF ret.args.full_properties THEN FullProps(now[i])
                           ELSE ShortProps(now[i])

C5_Witness ==
    /\ ret.op = "list" /\ Returned
    /\ held # <<>> /\ held[1].manager = managers[ret.args.cpc]
    /\ ~Exists(hmc, IdOf(held[1]))
    /\ Len(ret.value.items) = 1

\* C6: a list without full_properties issues one session request and calls
\* pull_full_properties on no partition; a list with full_properties that
\* returns has called pull_full_properties once per listed partition, in the
\* order of the list and before the partition is appended, and every
\* partition it returns carries the full properties.
C6_PullFullProperties ==
    ret.op = "list" =>
        LET pulls == OfMethod(log, "pull_full_properties")
        IN /\ ~ret.args.full_properties =>
                 /\ Len(Requests(log)) = 1
                 /\ pulls = <<>>
           /\ (ret.args.full_properties /\ Returned) =>
                 /\ Len(pulls) = Len(ret.value.items)
                 /\ \A i \in DOMAIN pulls :
                       pulls[i].uri = ret.value.items[i].properties.object_uri
                 /\ \A i \in DOMAIN log :
                       log[i].method = "append" =>
                           \E j \in 1..(i - 1) :
                               /\ log[j].method = "pull_full_properties"
                               /\ log[j].uri = log[i].uri
                 /\ \A i \in DOMAIN ret.value.items :
                       /\ ret.value.items[i].full_properties
                       /\ "description" \in DOMAIN ret.value.items[i].properties

C6_Witness ==
    /\ ret.op = "list" /\ Returned
    /\ ret.args.full_properties
    /\ Len(ret.value.items) = 2

\* C7: delete issues exactly one request, a DELETE on the partition's
\* object-uri; update_properties issues exactly one request, a POST on the
\* partition's object-uri with the given properties as the body; both return
\* None.
C7_DeleteAndUpdate ==
    /\ ret.op = "delete" =>
          /\ Len(log) = 1
          /\ log[1].method = "DELETE"
          /\ log[1].uri = ret.args.self.properties.object_uri
          /\ log[1].kwargs = NoKwargs
          /\ ret.value = None
    /\ ret.op = "update_properties" =>
          /\ Len(log) = 1
          /\ log[1].method = "POST"
          /\ log[1].uri = ret.args.self.properties.object_uri
          /\ log[1].kwargs = BodyKw(ret.args.properties)
          /\ ret.value = None

C7_Witness ==
    /\ ret.op = "update_properties" /\ Returned
    /\ PartOf(hmc, IdOf(ret.args.self)).description = ret.args.properties.description

\* C8: when the GET of list returns None or an empty object, list returns an
\* empty list without raising and without a further step; when it returns an
\* object with an empty 'partitions' array, list returns an empty list; and
\* whenever list returns, it returns a list.
C8_EmptyResponses ==
    ret.op = "list" =>
        /\ (log[1].raised = "none" /\ log[1].value \in {None, Json(<<>>)}) =>
              /\ Returned
              /\ ret.value = ListOf(<<>>)
              /\ Len(log) = 1
        /\ (log[1].raised = "none" /\ HasKey(log[1].value, "partitions")
                /\ log[1].value.members.partitions = <<>>) =>
              /\ Returned
              /\ ret.value = ListOf(<<>>)
        /\ Returned => ret.value.type = "list"

C8_Witness ==
    /\ ret.op = "list" /\ Returned
    /\ log[1].value = None
    /\ hmc.parts[ret.args.cpc] # <<>>
    /\ ret.value = ListOf(<<>>)

\* C9: start, stop, delete and update_properties leave the Partition they are
\* called on exactly as it was: the same properties, the same manager.
C9_HandleUnchanged ==
    ret.op \in {"start", "stop", "delete", "update_properties"} =>
        /\ held = <<ret.args.self>>
        /\ held = ret.local.held

C9_Witness ==
    /\ ret.op = "update_properties" /\ Returned
    /\ held[1].full_properties
    /\ held[1].properties.description # ret.args.properties.description
    /\ PartOf(hmc, IdOf(held[1])).description = ret.args.properties.description

====
